---- MODULE Spec2Model ----
(***************************************************************************)
(* Leaf page of the B+ tree index (mini-sql/src/page/                      *)
(* b_plus_tree_leaf_page.cpp).                                             *)
(*                                                                         *)
(* A page is its header fields and the pair array data_.  The array is     *)
(* modelled slot by slot (index 0 .. BufSlots-1), a slot being one         *)
(* (key, value) pair.  Only the slots [0, size) are state: the bytes of a  *)
(* slot at or beyond size are unspecified, they are kept as StalePair, and *)
(* a read of such a slot yields an arbitrary pair.                         *)
(***************************************************************************)
EXTENDS Integers, Sequences, FiniteSets, TLC

(* Bounds of the model *)
MaxKey == 4
MaxVal == 2
MaxSize == 3

INVALID_PAGE_ID == -1

Keys == 1..MaxKey
Vals == 1..MaxVal
PageIds == {1, 2}
ParentIds == {0}
KeySizes == {4}
(* the ids a next_page_id can hold: a page of the model, a leaf outside it, none *)
OtherPageIds == {3}
NextIds == PageIds \cup OtherPageIds \cup {INVALID_PAGE_ID}

(* data_ holds one pair more than max_size: the slots of the page buffer *)
BufSlots == MaxSize + 1
Slots == 0..(BufSlots - 1)

Pair == [key : Keys, value : Vals]
StalePair == [key |-> 0, value |-> 0]
NoValue == 0

VARIABLES size, data, next_page_id, page_id, parent_page_id, key_size,
          max_size, call, ret, entry, frame

vars == <<size, data, next_page_id, page_id, parent_page_id, key_size,
          max_size, call, ret, entry, frame>>

header == <<page_id, parent_page_id, key_size, max_size>>

(***************************************************************************)
(* The comparator KM.CompareKeys: a total order on keys, negative, zero or *)
(* positive.                                                               *)
(***************************************************************************)
CompareKeys(a, b) == IF a < b THEN -1 ELSE IF a = b THEN 0 ELSE 1

(* Positional accessors over one page's pair array *)
KeyAt(arr, index) == arr[index].key

SetKeyAt(arr, index, key) == [arr EXCEPT ![index].key = key]

ValueAt(arr, index) == arr[index].value

SetValueAt(arr, index, value) == [arr EXCEPT ![index].value = value]

(* The slots [0, n) of arr; the rest of the buffer is unspecified *)
Live(arr, n) == [i \in Slots |-> IF i < n THEN arr[i] ELSE StalePair]

EmptyBuf == [i \in Slots |-> StalePair]

(* The last call: the method, this page, the recipient, the key, and the    *)
(* sizes of the two pages on entry                                         *)
Call(o, p, r, k, n, rn) ==
  [op |-> o, page |-> p, rcp |-> r, key |-> k, size0 |-> n, rsize0 |-> rn]

NoPage == 0
NoKey == 0

(* What the last call returned: an int, or Lookup's found flag and value *)
Ret(n, f, v) == [val |-> n, found |-> f, value |-> v]

NoRet == Ret(0, FALSE, NoValue)

(* The sizes and pairs of the pages on entry of the last call, and the     *)
(* call that had returned before it, where they are recorded               *)
Entry(sz, dt, c) == [size |-> sz, data |-> dt, call |-> c]

NoEntry == Entry(<<>>, <<>>, Call("", NoPage, NoPage, NoKey, 0, 0))

(* The locals of the running call: where it is (in the binary search, in a *)
(* shift loop, about to return, or not running) and left, right, i, index  *)
Frame(a, l, r, j, x) == [at |-> a, left |-> l, right |-> r, i |-> j, index |-> x]

Idle == Frame("idle", 0, 0, 0, 0)

(* what the specifications of whole calls leave alone *)
locals == <<entry, frame>>

(***************************************************************************)
(* KeyIndex: binary search for the first index whose key is >= key.        *)
(***************************************************************************)
(* KeyIndex with the comparison < 0: the first index whose key is > key *)
RECURSIVE BinarySearch_UpperBound(_, _, _, _)
BinarySearch_UpperBound(arr, key, left, right) ==
  IF left <= right
    THEN LET mid == left + ((right - left) \div 2)
         IN  IF CompareKeys(key, KeyAt(arr, mid)) < 0
               THEN BinarySearch_UpperBound(arr, key, left, mid - 1)
               ELSE BinarySearch_UpperBound(arr, key, mid + 1, right)
    ELSE left

RECURSIVE BinarySearch(_, _, _, _)
BinarySearch(arr, key, left, right) ==
  IF left <= right
    THEN LET mid == left + ((right - left) \div 2)
         IN  IF CompareKeys(key, KeyAt(arr, mid)) <= 0
               THEN BinarySearch(arr, key, left, mid - 1)
               ELSE BinarySearch(arr, key, mid + 1, right)
    ELSE left

(* the loop body with right = mid in place of right = mid - 1 *)
SearchBody_KeepsMid(arr, key, left, right) ==
  LET mid == left + ((right - left) \div 2)
  IN  IF CompareKeys(key, KeyAt(arr, mid)) <= 0
        THEN <<left, mid>>
        ELSE <<mid + 1, right>>

(* one pass through the body of the while loop: the next <<left, right>> *)
SearchBody(arr, key, left, right) ==
  LET mid == left + ((right - left) \div 2)
  IN  IF CompareKeys(key, KeyAt(arr, mid)) <= 0
        THEN <<left, mid - 1>>
        ELSE <<mid + 1, right>>

KeyIndex(arr, n, key) == BinarySearch(arr, key, 0, n - 1)

(* for (i = from; i > index; --i) pairs[i] = pairs[i - 1] *)
(* the shift loop stopping one slot early: pairs[index + 1] is not written *)
RECURSIVE ShiftRight_StopsEarly(_, _, _)
ShiftRight_StopsEarly(arr, i, index) ==
  IF i > index + 1
    THEN ShiftRight_StopsEarly(SetValueAt(SetKeyAt(arr, i, KeyAt(arr, i - 1)),
                                          i, ValueAt(arr, i - 1)),
                               i - 1, index)
    ELSE arr

RECURSIVE ShiftRight(_, _, _)
ShiftRight(arr, i, index) ==
  IF i > index
    THEN ShiftRight(SetValueAt(SetKeyAt(arr, i, KeyAt(arr, i - 1)),
                               i, ValueAt(arr, i - 1)),
                    i - 1, index)
    ELSE arr

(* the shift loop stopping one slot early: pairs[n - 2] is not written *)
RECURSIVE ShiftLeft_StopsEarly(_, _, _)
ShiftLeft_StopsEarly(arr, i, n) ==
  IF i < n - 2
    THEN ShiftLeft_StopsEarly(SetValueAt(SetKeyAt(arr, i, KeyAt(arr, i + 1)),
                                         i, ValueAt(arr, i + 1)),
                              i + 1, n)
    ELSE arr

(* for (i = from; i < n - 1; ++i) pairs[i] = pairs[i + 1] *)
RECURSIVE ShiftLeft(_, _, _)
ShiftLeft(arr, i, n) ==
  IF i < n - 1
    THEN ShiftLeft(SetValueAt(SetKeyAt(arr, i, KeyAt(arr, i + 1)),
                              i, ValueAt(arr, i + 1)),
                   i + 1, n)
    ELSE arr

(* Lookup: <<found, value>> *)
Lookup(arr, n, key) ==
  LET index == KeyIndex(arr, n, key)
  IN  IF index < n /\ CompareKeys(key, KeyAt(arr, index)) = 0
        THEN Ret(0, TRUE, ValueAt(arr, index))
        ELSE Ret(0, FALSE, NoValue)

(* Insert overwriting the value of an equal key in place of the shift *)
InsertPairs_Overwrite(arr, n, key, value) ==
  LET index == KeyIndex(arr, n, key)
      shifted == ShiftRight(arr, n, index)
  IN  IF index < n /\ CompareKeys(key, KeyAt(arr, index)) = 0
        THEN SetValueAt(arr, index, value)
        ELSE SetValueAt(SetKeyAt(shifted, index, key), index, value)

(* The pair array after Insert's shift and write *)
InsertPairs(arr, n, key, value) ==
  LET index == KeyIndex(arr, n, key)
      shifted == ShiftRight(arr, n, index)
  IN  SetValueAt(SetKeyAt(shifted, index, key), index, value)

(* RemoveAndDeleteRecord without IncreaseSize(-1) *)
RemoveSize_NoDecrement(arr, n, key) == n

(* The size after RemoveAndDeleteRecord *)
RemoveSize(arr, n, key) ==
  LET index == KeyIndex(arr, n, key)
  IN  IF index < n /\ CompareKeys(key, KeyAt(arr, index)) = 0
        THEN n - 1
        ELSE n

(* RemoveAndDeleteRecord shifting without the key comparison *)
RemovePairs_NoCompare(arr, n, key) ==
  LET index == KeyIndex(arr, n, key)
  IN  IF index < n
        THEN ShiftLeft(arr, index, n)
        ELSE arr

(* The pair array after RemoveAndDeleteRecord *)
RemovePairs(arr, n, key) ==
  LET index == KeyIndex(arr, n, key)
  IN  IF index < n /\ CompareKeys(key, KeyAt(arr, index)) = 0
        THEN ShiftLeft(arr, index, n)
        ELSE arr

(* CopyNFrom reading from the start of the source array *)
CopyNFrom_FromStart(arr, n, src, from, cnt) ==
  [i \in Slots |-> IF i >= n /\ i < n + cnt THEN src[i - n] ELSE arr[i]]

(* memcpy of cnt pairs of src, from slot from on, to the end of arr *)
CopyNFrom(arr, n, src, from, cnt) ==
  [i \in Slots |-> IF i >= n /\ i < n + cnt THEN src[from + (i - n)] ELSE arr[i]]

(* CopyLastFrom without SetValueAt(GetSize(), value) *)
CopyLastFrom_KeyOnly(arr, n, key, value) == SetKeyAt(arr, n, key)

(* The pair array after CopyLastFrom *)
CopyLastFrom(arr, n, key, value) == SetValueAt(SetKeyAt(arr, n, key), n, value)

(* CopyFirstFrom without the shift: the first pair is overwritten *)
CopyFirstFrom_NoShift(arr, n, key, value) ==
  SetValueAt(SetKeyAt(arr, 0, key), 0, value)

(* The pair array after CopyFirstFrom *)
CopyFirstFrom(arr, n, key, value) ==
  SetValueAt(SetKeyAt(ShiftRight(arr, n, 0), 0, key), 0, value)

(* MoveHalfTo with the count rounded up *)
MoveCount_RoundUp(total) == (total + 1) \div 2

(* The number of pairs MoveHalfTo moves *)
MoveCount(total) == total \div 2

(***************************************************************************)
(* The state after both pages are constructed with LeafPage::Init.         *)
(***************************************************************************)
Init ==
  /\ size = [p \in PageIds |-> 0]
  /\ data = [p \in PageIds |-> EmptyBuf]
  /\ next_page_id = [p \in PageIds |-> INVALID_PAGE_ID]
  /\ page_id = [p \in PageIds |-> p]
  /\ parent_page_id = [p \in PageIds |-> CHOOSE x \in ParentIds : TRUE]
  /\ key_size = [p \in PageIds |-> CHOOSE x \in KeySizes : TRUE]
  /\ max_size = [p \in PageIds |-> MaxSize]
  /\ call = Call("Init", 2, NoPage, NoKey, 0, 0)
  /\ ret = NoRet
  /\ entry = NoEntry
  /\ frame = Idle

(***************************************************************************)
(* The operations.  Each is the whole method; its guard keeps every slot   *)
(* it writes inside data_ (0 <= slot < BufSlots) and takes no size below   *)
(* -1.                                                                     *)
(***************************************************************************)
LeafPage_Init(p, pid, parent, ksize, msize) ==
  /\ size' = [size EXCEPT ![p] = 0]
  /\ data' = [data EXCEPT ![p] = EmptyBuf]
  /\ page_id' = [page_id EXCEPT ![p] = pid]
  /\ parent_page_id' = [parent_page_id EXCEPT ![p] = parent]
  /\ key_size' = [key_size EXCEPT ![p] = ksize]
  /\ max_size' = [max_size EXCEPT ![p] = msize]
  /\ next_page_id' = [next_page_id EXCEPT ![p] = INVALID_PAGE_ID]
  /\ call' = Call("Init", p, NoPage, NoKey, 0, 0)
  /\ ret' = NoRet

SetNextPageId(p, id) ==
  /\ next_page_id' = [next_page_id EXCEPT ![p] = id]
  /\ call' = Call("SetNextPageId", p, NoPage, NoKey, size[p], 0)
  /\ ret' = NoRet
  /\ UNCHANGED <<size, data, header>>

KeyIndexCall(p, key) ==
  /\ call' = Call("KeyIndex", p, NoPage, key, size[p], 0)
  /\ ret' = Ret(KeyIndex(data[p], size[p], key), FALSE, NoValue)
  /\ UNCHANGED <<size, data, next_page_id, header>>

LookupCall(p, key) ==
  /\ call' = Call("Lookup", p, NoPage, key, size[p], 0)
  /\ ret' = Lookup(data[p], size[p], key)
  /\ UNCHANGED <<size, data, next_page_id, header>>

Insert(p, key, value) ==
  /\ size[p] >= 0
  /\ size[p] < BufSlots
  /\ data' = [data EXCEPT
                ![p] = Live(InsertPairs(data[p], size[p], key, value), size[p] + 1)]
  /\ size' = [size EXCEPT ![p] = size[p] + 1]
  /\ call' = Call("Insert", p, NoPage, key, size[p], 0)
  /\ ret' = Ret(size'[p], FALSE, NoValue)
  /\ UNCHANGED <<next_page_id, header>>

RemoveAndDeleteRecord(p, key) ==
  /\ data' = [data EXCEPT
                ![p] = Live(RemovePairs(data[p], size[p], key),
                            RemoveSize(data[p], size[p], key))]
  /\ size' = [size EXCEPT ![p] = RemoveSize(data[p], size[p], key)]
  /\ call' = Call("RemoveAndDeleteRecord", p, NoPage, key, size[p], 0)
  /\ ret' = Ret(size'[p], FALSE, NoValue)
  /\ UNCHANGED <<next_page_id, header>>

(* MoveHalfTo that also splices the recipient into the sibling chain *)
MoveHalfTo_Relink(p, r) ==
  LET total == size[p]
      move_count == MoveCount(total)
  IN  /\ p # r
      /\ size[p] >= 0
      /\ size[r] >= 0
      /\ size[r] + move_count <= BufSlots
      /\ data' = [data EXCEPT
                    ![r] = Live(CopyNFrom(data[r], size[r], data[p],
                                          total - move_count, move_count),
                                size[r] + move_count),
                    ![p] = Live(data[p], total - move_count)]
      /\ size' = [size EXCEPT ![r] = size[r] + move_count,
                              ![p] = total - move_count]
      /\ next_page_id' = [next_page_id EXCEPT ![r] = next_page_id[p],
                                              ![p] = page_id[r]]
      /\ call' = Call("MoveHalfTo", p, r, NoKey, size[p], size[r])
      /\ ret' = NoRet
      /\ UNCHANGED header

MoveHalfTo(p, r) ==
  LET total == size[p]
      move_count == MoveCount(total)
  IN  /\ p # r
      /\ size[p] >= 0
      /\ size[r] >= 0
      /\ size[r] + move_count <= BufSlots
      /\ data' = [data EXCEPT
                    ![r] = Live(CopyNFrom(data[r], size[r], data[p],
                                          total - move_count, move_count),
                                size[r] + move_count),
                    ![p] = Live(data[p], total - move_count)]
      /\ size' = [size EXCEPT ![r] = size[r] + move_count,
                              ![p] = total - move_count]
      /\ call' = Call("MoveHalfTo", p, r, NoKey, size[p], size[r])
      /\ ret' = NoRet
      /\ UNCHANGED <<next_page_id, header>>

(* MoveAllTo that also resets the next_page_id of the emptied page *)
MoveAllTo_ClearsOwnLink(p, r) ==
  /\ p # r
  /\ size[p] >= 0
  /\ size[r] >= 0
  /\ size[r] + size[p] <= BufSlots
  /\ data' = [data EXCEPT
                ![r] = Live(CopyNFrom(data[r], size[r], data[p], 0, size[p]),
                            size[r] + size[p]),
                ![p] = Live(data[p], 0)]
  /\ size' = [size EXCEPT ![r] = size[r] + size[p], ![p] = 0]
  /\ next_page_id' = [next_page_id EXCEPT ![r] = next_page_id[p],
                                          ![p] = INVALID_PAGE_ID]
  /\ call' = Call("MoveAllTo", p, r, NoKey, size[p], size[r])
  /\ ret' = NoRet
  /\ UNCHANGED header

(* MoveAllTo without recipient->SetNextPageId(GetNextPageId()) *)
MoveAllTo_NoLink(p, r) ==
  /\ p # r
  /\ size[p] >= 0
  /\ size[r] >= 0
  /\ size[r] + size[p] <= BufSlots
  /\ data' = [data EXCEPT
                ![r] = Live(CopyNFrom(data[r], size[r], data[p], 0, size[p]),
                            size[r] + size[p]),
                ![p] = Live(data[p], 0)]
  /\ size' = [size EXCEPT ![r] = size[r] + size[p], ![p] = 0]
  /\ call' = Call("MoveAllTo", p, r, NoKey, size[p], size[r])
  /\ ret' = NoRet
  /\ UNCHANGED <<next_page_id, header>>

MoveAllTo(p, r) ==
  /\ p # r
  /\ size[p] >= 0
  /\ size[r] >= 0
  /\ size[r] + size[p] <= BufSlots
  /\ data' = [data EXCEPT
                ![r] = Live(CopyNFrom(data[r], size[r], data[p], 0, size[p]),
                            size[r] + size[p]),
                ![p] = Live(data[p], 0)]
  /\ size' = [size EXCEPT ![r] = size[r] + size[p], ![p] = 0]
  /\ next_page_id' = [next_page_id EXCEPT ![r] = next_page_id[p]]
  /\ call' = Call("MoveAllTo", p, r, NoKey, size[p], size[r])
  /\ ret' = NoRet
  /\ UNCHANGED header

(* The pairs a read of slot index of page p can yield *)
ReadPair(p, index) ==
  IF index >= 0 /\ index < size[p] THEN {data[p][index]} ELSE Pair

MoveFirstToEndOf(p, r) ==
  /\ p # r
  /\ size[p] >= 0
  /\ size[r] >= 0
  /\ size[r] < BufSlots
  /\ \E first \in ReadPair(p, 0) :
       data' = [data EXCEPT
                  ![r] = Live(CopyLastFrom(data[r], size[r], first.key, first.value),
                              size[r] + 1),
                  ![p] = Live(ShiftLeft(data[p], 0, size[p]), size[p] - 1)]
  /\ size' = [size EXCEPT ![r] = size[r] + 1, ![p] = size[p] - 1]
  /\ call' = Call("MoveFirstToEndOf", p, r, NoKey, size[p], size[r])
  /\ ret' = NoRet
  /\ UNCHANGED <<next_page_id, header>>

MoveLastToFrontOf(p, r) ==
  /\ p # r
  /\ size[p] >= 0
  /\ size[r] >= 0
  /\ size[r] < BufSlots
  /\ \E last \in ReadPair(p, size[p] - 1) :
       data' = [data EXCEPT
                  ![r] = Live(CopyFirstFrom(data[r], size[r], last.key, last.value),
                              size[r] + 1),
                  ![p] = Live(data[p], size[p] - 1)]
  /\ size' = [size EXCEPT ![r] = size[r] + 1, ![p] = size[p] - 1]
  /\ call' = Call("MoveLastToFrontOf", p, r, NoKey, size[p], size[r])
  /\ ret' = NoRet
  /\ UNCHANGED <<next_page_id, header>>

(***************************************************************************)
(* What the tree driver guarantees of the pages it passes.                 *)
(***************************************************************************)
LiveKeys(p) == {data[p][i].key : i \in {j \in Slots : j < size[p]}}

(* every key of page l precedes every key of page r: l is left of r *)
AllBefore(l, r) == \A a \in LiveKeys(l), b \in LiveKeys(r) : CompareKeys(a, b) < 0

(* key is stored in no page, and belongs to the key range of page p *)
BelongsTo(p, key) ==
  /\ \A q \in PageIds : key \notin LiveKeys(q)
  /\ \A q \in PageIds \ {p} :
       \/ \A b \in LiveKeys(q) : CompareKeys(key, b) < 0 /\ AllBefore(p, q)
       \/ \A b \in LiveKeys(q) : CompareKeys(b, key) < 0 /\ AllBefore(q, p)

(* the row locator the driver stores under key *)
RowIdOf(key) == ((key - 1) % MaxVal) + 1

(***************************************************************************)
(* Spec: two sibling leaves under the tree driver.  The driver keeps the   *)
(* keys unique and the siblings in key order and redistributes from a      *)
(* non-empty page only; it is not held to the capacity preconditions,      *)
(* which the page never checks.                                            *)
(***************************************************************************)
DoInit == \E p \in PageIds, parent \in ParentIds, ksize \in KeySizes :
            LeafPage_Init(p, p, parent, ksize, MaxSize) /\ UNCHANGED locals

DoSetNext == \E p \in PageIds : \E id \in NextIds \ {p} :
               SetNextPageId(p, id) /\ UNCHANGED locals

DoKeyIndex == \E p \in PageIds, key \in Keys :
                KeyIndexCall(p, key) /\ UNCHANGED locals

DoLookup == \E p \in PageIds, key \in Keys :
              LookupCall(p, key) /\ UNCHANGED locals

DoInsert == \E p \in PageIds, key \in Keys :
              BelongsTo(p, key) /\ Insert(p, key, RowIdOf(key)) /\ UNCHANGED locals

DoRemove == \E p \in PageIds, key \in Keys :
              RemoveAndDeleteRecord(p, key) /\ UNCHANGED locals

DoMoveHalfTo == \E p \in PageIds, r \in PageIds :
                  size[r] = 0 /\ MoveHalfTo(p, r) /\ UNCHANGED locals

DoMoveAllTo == \E p \in PageIds, r \in PageIds :
                 AllBefore(r, p) /\ MoveAllTo(p, r) /\ UNCHANGED locals

DoMoveFirstToEndOf == \E p \in PageIds, r \in PageIds :
                        /\ size[p] > 0
                        /\ AllBefore(r, p)
                        /\ MoveFirstToEndOf(p, r)
                        /\ UNCHANGED locals

DoMoveLastToFrontOf == \E p \in PageIds, r \in PageIds :
                         /\ size[p] > 0
                         /\ AllBefore(p, r)
                         /\ MoveLastToFrontOf(p, r)
                         /\ UNCHANGED locals

Next ==
  \/ DoInit
  \/ DoSetNext
  \/ DoKeyIndex
  \/ DoLookup
  \/ DoInsert
  \/ DoRemove
  \/ DoMoveHalfTo
  \/ DoMoveAllTo
  \/ DoMoveFirstToEndOf
  \/ DoMoveLastToFrontOf

Spec == Init /\ [][Next]_vars

(***************************************************************************)
(* SpecLeaf: any sequence of Insert and RemoveAndDeleteRecord (and the     *)
(* read-only KeyIndex and Lookup) on one leaf page, with any key, never    *)
(* inserting into the page at max_size.                                    *)
(***************************************************************************)
LeafPages == {1}

LeafInsert == \E p \in LeafPages, key \in Keys, value \in Vals :
                size[p] < max_size[p] /\ Insert(p, key, value) /\ UNCHANGED locals

LeafRemove == \E p \in LeafPages, key \in Keys :
                RemoveAndDeleteRecord(p, key) /\ UNCHANGED locals

LeafKeyIndex == \E p \in LeafPages, key \in Keys :
                  KeyIndexCall(p, key) /\ UNCHANGED locals

LeafLookup == \E p \in LeafPages, key \in Keys :
                LookupCall(p, key) /\ UNCHANGED locals

NextLeaf ==
  \/ LeafInsert
  \/ LeafRemove
  \/ LeafKeyIndex
  \/ LeafLookup

SpecLeaf == Init /\ [][NextLeaf]_vars

(***************************************************************************)
(* SpecSteps: the same calls run loop pass by loop pass.  A call is        *)
(* started on pages with 0 <= size <= max_size; its frame then goes        *)
(* through the binary search and the shift loop of the method, one pass of *)
(* a loop per step, and the call returns with the effect of the whole      *)
(* method.  The copies a shift loop makes change neither i nor its bound,  *)
(* so they are made on return.  A started call keeps running: the steps of *)
(* a call are weakly fair.                                                 *)
(***************************************************************************)
SearchOps == {"KeyIndex", "Lookup", "Insert", "RemoveAndDeleteRecord"}

InRange(p) == 0 <= size[p] /\ size[p] <= max_size[p]

(* the frame on entry of method o of page p with recipient r *)
EntryFrame(o, p, r) ==
  CASE o \in SearchOps -> Frame("search", 0, size[p] - 1, 0, 0)
    [] o = "MoveFirstToEndOf" -> Frame("shift_left", 0, 0, 0, 0)
    [] o = "MoveLastToFrontOf" -> Frame("shift_right", 0, 0, size[r], 0)
    [] OTHER -> Frame("return", 0, 0, 0, 0)

Enter(o, p, r, key) ==
  /\ frame.at = "idle"
  /\ InRange(p)
  /\ r # NoPage => (r # p /\ InRange(r))
  /\ call' = Call(o, p, r, key, size[p], IF r = NoPage THEN 0 ELSE size[r])
  /\ ret' = NoRet
  /\ frame' = EntryFrame(o, p, r)
  /\ UNCHANGED <<size, data, next_page_id, header, entry>>

(* the frame when the binary search of method o has returned index *)
AfterSearch(o, p, key, index) ==
  CASE o = "Insert" -> Frame("shift_right", 0, 0, size[p], index)
    [] o = "RemoveAndDeleteRecord" ->
         IF index < size[p] /\ CompareKeys(key, KeyAt(data[p], index)) = 0
           THEN Frame("shift_left", 0, 0, index, index)
           ELSE Frame("return", 0, 0, 0, index)
    [] OTHER -> Frame("return", 0, 0, 0, index)

(* while (left <= right) { ... } return left; *)
SearchStep ==
  /\ frame.at = "search"
  /\ frame' =
       IF frame.left <= frame.right
         THEN LET lr == SearchBody(data[call.page], call.key, frame.left, frame.right)
              IN  [frame EXCEPT !.left = lr[1], !.right = lr[2]]
         ELSE AfterSearch(call.op, call.page, call.key, frame.left)
  /\ UNCHANGED <<size, data, next_page_id, header, call, ret, entry>>

(* for (i = GetSize(); i > index; --i) and for (i = index; i < GetSize() - 1; ++i) *)
ShiftStep ==
  /\ \/ /\ frame.at = "shift_right"
        /\ frame' = IF frame.i > frame.index
                      THEN [frame EXCEPT !.i = frame.i - 1]
                      ELSE [frame EXCEPT !.at = "return"]
     \/ /\ frame.at = "shift_left"
        /\ frame' = IF frame.i < size[call.page] - 1
                      THEN [frame EXCEPT !.i = frame.i + 1]
                      ELSE [frame EXCEPT !.at = "return"]
  /\ UNCHANGED <<size, data, next_page_id, header, call, ret, entry>>

(* the call returns: the effect of the whole method *)
Return ==
  /\ frame.at = "return"
  /\ frame' = Idle
  /\ UNCHANGED entry
  /\ LET p == call.page
         r == call.rcp
         key == call.key
     IN  \/ call.op = "KeyIndex" /\ KeyIndexCall(p, key)
         \/ call.op = "Lookup" /\ LookupCall(p, key)
         \/ call.op = "Insert" /\ Insert(p, key, RowIdOf(key))
         \/ call.op = "RemoveAndDeleteRecord" /\ RemoveAndDeleteRecord(p, key)
         \/ call.op = "MoveHalfTo" /\ MoveHalfTo(p, r)
         \/ call.op = "MoveAllTo" /\ MoveAllTo(p, r)
         \/ call.op = "MoveFirstToEndOf" /\ MoveFirstToEndOf(p, r)
         \/ call.op = "MoveLastToFrontOf" /\ MoveLastToFrontOf(p, r)

StepsInit == \E p \in PageIds, parent \in ParentIds, ksize \in KeySizes :
               /\ frame.at = "idle"
               /\ LeafPage_Init(p, p, parent, ksize, MaxSize)
               /\ UNCHANGED locals

StartKeyIndex == \E p \in PageIds, key \in Keys : Enter("KeyIndex", p, NoPage, key)

StartLookup == \E p \in PageIds, key \in Keys : Enter("Lookup", p, NoPage, key)

StartInsert == \E p \in PageIds, key \in Keys :
                 BelongsTo(p, key) /\ Enter("Insert", p, NoPage, key)

StartRemove == \E p \in PageIds, key \in Keys :
                 Enter("RemoveAndDeleteRecord", p, NoPage, key)

StartMoveHalfTo == \E p \in PageIds, r \in PageIds :
                     size[r] = 0 /\ Enter("MoveHalfTo", p, r, NoKey)

StartMoveAllTo == \E p \in PageIds, r \in PageIds :
                    /\ AllBefore(r, p)
                    /\ size[r] + size[p] <= BufSlots
                    /\ Enter("MoveAllTo", p, r, NoKey)

StartMoveFirstToEndOf == \E p \in PageIds, r \in PageIds :
                           /\ size[p] > 0
                           /\ AllBefore(r, p)
                           /\ Enter("MoveFirstToEndOf", p, r, NoKey)

StartMoveLastToFrontOf == \E p \in PageIds, r \in PageIds :
                            /\ size[p] > 0
                            /\ AllBefore(p, r)
                            /\ Enter("MoveLastToFrontOf", p, r, NoKey)

Run == SearchStep \/ ShiftStep \/ Return

NextSteps ==
  \/ StepsInit
  \/ StartKeyIndex
  \/ StartLookup
  \/ StartInsert
  \/ StartRemove
  \/ StartMoveHalfTo
  \/ StartMoveAllTo
  \/ StartMoveFirstToEndOf
  \/ StartMoveLastToFrontOf
  \/ SearchStep
  \/ ShiftStep
  \/ Return

SpecSteps == Init /\ [][NextSteps]_vars /\ WF_vars(Run)

(***************************************************************************)
(* SpecTrip: the two sibling leaves under the tree driver, filled by       *)
(* Insert and rearranged by the four moves, with the sizes and pairs of    *)
(* the pages on entry of each call recorded in entry.                      *)
(***************************************************************************)
Recorded == entry' = Entry(size, data, call) /\ UNCHANGED frame

TripInit == \E p \in PageIds, parent \in ParentIds, ksize \in KeySizes :
              LeafPage_Init(p, p, parent, ksize, MaxSize) /\ Recorded

TripInsert == \E p \in PageIds, key \in Keys :
                BelongsTo(p, key) /\ Insert(p, key, RowIdOf(key)) /\ Recorded

TripMoveHalfTo == \E p \in PageIds, r \in PageIds :
                    size[r] = 0 /\ MoveHalfTo(p, r) /\ Recorded

TripMoveAllTo == \E p \in PageIds, r \in PageIds :
                   AllBefore(r, p) /\ MoveAllTo(p, r) /\ Recorded

TripMoveFirstToEndOf == \E p \in PageIds, r \in PageIds :
                          /\ size[p] > 0
                          /\ AllBefore(r, p)
                          /\ MoveFirstToEndOf(p, r)
                          /\ Recorded

TripMoveLastToFrontOf == \E p \in PageIds, r \in PageIds :
                           /\ size[p] > 0
                           /\ AllBefore(p, r)
                           /\ MoveLastToFrontOf(p, r)
                           /\ Recorded

NextTrip ==
  \/ TripInit
  \/ TripInsert
  \/ TripMoveHalfTo
  \/ TripMoveAllTo
  \/ TripMoveFirstToEndOf
  \/ TripMoveLastToFrontOf

SpecTrip == Init /\ [][NextTrip]_vars

TypeOK ==
  /\ size \in [PageIds -> -1..BufSlots]
  /\ \A p \in PageIds : data[p] = Live(data[p], size[p])
  /\ next_page_id \in [PageIds -> NextIds]
  /\ max_size = [p \in PageIds |-> MaxSize]

(***************************************************************************)
(* Vocabulary of the properties.                                           *)
(***************************************************************************)
(* the pairs of the slots [0, n) as a sequence *)
LivePairs(arr, n) == [i \in 1..n |-> arr[i - 1]]

StrictlyAscending(arr, n) ==
  \A i \in 0..(n - 1), j \in 0..(n - 1) :
    i < j => CompareKeys(arr[i].key, arr[j].key) < 0

Ascending(arr, n) ==
  \A i \in 0..(n - 1), j \in 0..(n - 1) :
    i < j => CompareKeys(arr[i].key, arr[j].key) <= 0

KeysOf(arr, n) == {arr[i].key : i \in 0..(n - 1)}

NotFound == Ret(0, FALSE, NoValue)

Found(value) == Ret(0, TRUE, value)

(***************************************************************************)
(* A step is identified by the call it records: this page, the recipient   *)
(* and the key of the call that has just run.                              *)
(***************************************************************************)
Step(o) == call'.op = o

(***************************************************************************)
(* C4 Size accounting: an Insert step returns and leaves size = pre-call   *)
(* size + 1; a RemoveAndDeleteRecord step of a key that is present returns *)
(* and leaves pre-call size - 1; of an absent key it returns the pre-call  *)
(* size and leaves size unchanged.                                         *)
(***************************************************************************)
SizeAccounting ==
  [][LET p == call'.page
         key == call'.key
     IN  /\ Step("Insert") =>
              size'[p] = size[p] + 1 /\ ret'.val = size[p] + 1
         /\ Step("RemoveAndDeleteRecord") =>
              IF key \in KeysOf(data[p], size[p])
                THEN size'[p] = size[p] - 1 /\ ret'.val = size[p] - 1
                ELSE size'[p] = size[p] /\ ret'.val = size[p]]_vars

(* a Remove of a present key has just taken a page from max_size to        *)
(* max_size - 1 and returned that                                          *)
SizeAccountingWitness ==
  /\ call.op = "RemoveAndDeleteRecord"
  /\ call.size0 = MaxSize
  /\ size[call.page] = MaxSize - 1
  /\ ret.val = MaxSize - 1

(***************************************************************************)
(* C1 Sortedness: at every observation point of a sequence of Insert and   *)
(* RemoveAndDeleteRecord calls (none into a page at max_size) the pairs at *)
(* [0, size) are strictly ascending by key, with no duplicate keys.        *)
(***************************************************************************)
PairsStrictlyAscending ==
  \A p \in PageIds : StrictlyAscending(data[p], size[p])

(***************************************************************************)
(* C2 Lookup correctness, step by step: after Insert(key, value) Lookup of *)
(* key returns true with value; after RemoveAndDeleteRecord(key) Lookup of *)
(* key reports not-found; and neither call changes what Lookup returns for *)
(* any other key.                                                          *)
(***************************************************************************)
LookupCorrect ==
  [][LET p == call'.page
         key == call'.key
     IN  /\ Step("Insert") =>
              /\ \E value \in Vals :
                   /\ Insert(p, key, value)
                   /\ Lookup(data'[p], size'[p], key) = Found(value)
              /\ \A other \in Keys \ {key} :
                   Lookup(data'[p], size'[p], other) = Lookup(data[p], size[p], other)
         /\ Step("RemoveAndDeleteRecord") =>
              /\ Lookup(data'[p], size'[p], key) = NotFound
              /\ \A other \in Keys \ {key} :
                   Lookup(data'[p], size'[p], other) = Lookup(data[p], size[p], other)]_vars

(***************************************************************************)
(* C3 Size bounds: in every reachable state every page has                 *)
(* 0 <= size <= max_size.                                                  *)
(***************************************************************************)
SizeWithinBounds ==
  \A p \in PageIds : 0 <= size[p] /\ size[p] <= max_size[p]

(***************************************************************************)
(* C5 Split correctness: MoveHalfTo from a sorted page into an empty       *)
(* recipient leaves left.size + right.size = the original size, every key  *)
(* of the left page <= every key of the right page, and left's pairs       *)
(* followed by right's pairs are the original sequence.                    *)
(***************************************************************************)
SplitCorrect ==
  [][LET p == call'.page
         r == call'.rcp
     IN  (Step("MoveHalfTo") /\ size[r] = 0 /\ Ascending(data[p], size[p])) =>
           /\ size'[p] + size'[r] = size[p]
           /\ \A a \in KeysOf(data'[p], size'[p]), b \in KeysOf(data'[r], size'[r]) :
                CompareKeys(a, b) <= 0
           /\ LivePairs(data'[p], size'[p]) \o LivePairs(data'[r], size'[r])
                = LivePairs(data[p], size[p])]_vars

(* a page of max_size pairs has just been split into a fresh recipient *)
SplitCorrectWitness ==
  /\ call.op = "MoveHalfTo"
  /\ call.size0 = MaxSize
  /\ call.rsize0 = 0
  /\ size[call.page] = MaxSize - MoveCount(MaxSize)
  /\ size[call.rcp] = MoveCount(MaxSize)
  /\ size[call.rcp] > 0

(* r is as LeafPage::Init leaves it *)
FreshlyInitialized(r) == size[r] = 0 /\ next_page_id[r] = INVALID_PAGE_ID

(***************************************************************************)
(* C6 as claimed, sibling link after split: after MoveHalfTo of a page of  *)
(* two pairs or more into a freshly initialized recipient the recipient's  *)
(* next_page_id is the splitting page's original next_page_id and the      *)
(* splitting page's next_page_id is the recipient's page id.               *)
(***************************************************************************)
SplitLinksSiblings ==
  [][LET p == call'.page
         r == call'.rcp
     IN  (Step("MoveHalfTo") /\ FreshlyInitialized(r) /\ size[p] >= 2) =>
           /\ next_page_id'[r] = next_page_id[p]
           /\ next_page_id'[p] = page_id[r]]_vars

(***************************************************************************)
(* C6 as amended: MoveHalfTo into a freshly initialized recipient changes  *)
(* no next_page_id: afterwards the recipient's next_page_id is still       *)
(* INVALID_PAGE_ID and the splitting page's next_page_id is still its      *)
(* original one (the splice is left to the caller, with SetNextPageId).    *)
(***************************************************************************)
SplitLeavesLinks ==
  [][LET p == call'.page
         r == call'.rcp
     IN  (Step("MoveHalfTo") /\ FreshlyInitialized(r)) =>
           /\ next_page_id'[r] = INVALID_PAGE_ID
           /\ next_page_id'[p] = next_page_id[p]]_vars

(* a page linked to a following leaf has just been split: the link has not *)
(* moved to the recipient                                                  *)
SplitLeavesLinksWitness ==
  /\ call.op = "MoveHalfTo"
  /\ call.size0 = MaxSize
  /\ size[call.rcp] > 0
  /\ next_page_id[call.page] \in OtherPageIds
  /\ next_page_id[call.rcp] = INVALID_PAGE_ID

(***************************************************************************)
(* C7 Merge correctness: MoveAllTo into the left sibling, with             *)
(* recipient.size + this.size <= max_size, leaves the recipient with its   *)
(* old pairs followed by this page's old pairs (sorted), with size the sum *)
(* of the two sizes and with this page's old next_page_id, and leaves this *)
(* page with size 0.                                                       *)
(***************************************************************************)
MergeCorrect ==
  [][LET p == call'.page
         r == call'.rcp
     IN  ( /\ Step("MoveAllTo")
           /\ AllBefore(r, p)
           /\ StrictlyAscending(data[p], size[p])
           /\ StrictlyAscending(data[r], size[r])
           /\ size[r] + size[p] <= max_size[r] ) =>
           /\ size'[r] = size[r] + size[p]
           /\ LivePairs(data'[r], size'[r])
                = LivePairs(data[r], size[r]) \o LivePairs(data[p], size[p])
           /\ StrictlyAscending(data'[r], size'[r])
           /\ next_page_id'[r] = next_page_id[p]
           /\ size'[p] = 0]_vars

(* two non-empty siblings have just been merged, and the recipient has     *)
(* taken over the link to the following leaf                               *)
MergeCorrectWitness ==
  /\ call.op = "MoveAllTo"
  /\ call.size0 = MaxSize - 1
  /\ call.rsize0 = 1
  /\ size[call.rcp] = MaxSize
  /\ size[call.page] = 0
  /\ next_page_id[call.rcp] \in OtherPageIds

(***************************************************************************)
(* C8 Redistribution correctness: MoveFirstToEndOf into the left sibling   *)
(* and MoveLastToFrontOf into the right sibling, from a non-empty page,    *)
(* take one pair from the source and add one to the recipient, leave both  *)
(* pages sorted, and the pair now at the end (at the front) of the         *)
(* recipient is the one that was first (last) in the source.               *)
(***************************************************************************)
RedistributeCorrect ==
  [][LET p == call'.page
         r == call'.rcp
     IN  /\ ( /\ Step("MoveFirstToEndOf")
              /\ size[p] > 0
              /\ AllBefore(r, p)
              /\ StrictlyAscending(data[p], size[p])
              /\ StrictlyAscending(data[r], size[r]) ) =>
              /\ size'[p] = size[p] - 1
              /\ size'[r] = size[r] + 1
              /\ StrictlyAscending(data'[p], size'[p])
              /\ StrictlyAscending(data'[r], size'[r])
              /\ data'[r][size[r]] = data[p][0]
         /\ ( /\ Step("MoveLastToFrontOf")
              /\ size[p] > 0
              /\ AllBefore(p, r)
              /\ StrictlyAscending(data[p], size[p])
              /\ StrictlyAscending(data[r], size[r]) ) =>
              /\ size'[p] = size[p] - 1
              /\ size'[r] = size[r] + 1
              /\ StrictlyAscending(data'[p], size'[p])
              /\ StrictlyAscending(data'[r], size'[r])
              /\ data'[r][0] = data[p][size[p] - 1]]_vars

(* the last pair of a page of two has just been moved in front of the two  *)
(* pairs of its right sibling                                              *)
RedistributeCorrectWitness ==
  /\ call.op = "MoveLastToFrontOf"
  /\ call.size0 = 2
  /\ call.rsize0 = 2
  /\ size[call.page] = 1
  /\ size[call.rcp] = 3
  /\ CompareKeys(data[call.page][0].key, data[call.rcp][0].key) < 0

(***************************************************************************)
(* C9 KeyIndex on a sorted page returns the smallest index i in [0, size]  *)
(* whose pair has a key >= the search key: every pair before i has a       *)
(* smaller key, the pair at i (if any) has not, and i = size when all keys *)
(* are smaller.                                                            *)
(***************************************************************************)
KeyIndexLowerBound ==
  \A p \in PageIds, key \in Keys :
    Ascending(data[p], size[p]) =>
      LET i == KeyIndex(data[p], size[p], key)
      IN  /\ i \in 0..size[p]
          /\ \A j \in 0..(i - 1) : CompareKeys(data[p][j].key, key) < 0
          /\ i < size[p] => CompareKeys(data[p][i].key, key) >= 0

(* KeyIndex has just returned 2 for a key that lies strictly between the   *)
(* second and the third key of a page of three                             *)
KeyIndexLowerBoundWitness ==
  /\ call.op = "KeyIndex"
  /\ call.size0 = 3
  /\ size[call.page] = 3
  /\ CompareKeys(data[call.page][1].key, call.key) < 0
  /\ CompareKeys(call.key, data[call.page][2].key) < 0
  /\ ret.val = 2

(***************************************************************************)
(* C10 No operation is partial: a call that violates its precondition      *)
(* (Insert into a page at max_size, MoveAllTo with recipient.size +        *)
(* this.size above max_size, MoveFirstToEndOf or MoveLastToFrontOf from an *)
(* empty page) is rejected, leaving size, pairs and next_page_id of both   *)
(* pages unchanged.                                                        *)
(***************************************************************************)
ViolationRejected ==
  [][LET p == call'.page
         r == call'.rcp
     IN  /\ (Step("Insert") /\ size[p] >= max_size[p]) =>
              UNCHANGED <<size, data, next_page_id>>
         /\ (Step("MoveAllTo") /\ size[r] + size[p] > max_size[r]) =>
              UNCHANGED <<size, data, next_page_id>>
         /\ ((Step("MoveFirstToEndOf") \/ Step("MoveLastToFrontOf")) /\ size[p] = 0) =>
              UNCHANGED <<size, data, next_page_id>>]_vars

(***************************************************************************)
(* C11 RemoveAndDeleteRecord of a key that is not stored is a no-op: it    *)
(* returns the unchanged size and leaves size, every stored pair and       *)
(* next_page_id of every page as they were, so that any number of such     *)
(* calls leaves the page as no call does.                                  *)
(***************************************************************************)
AbsentRemoveNoOp ==
  [][LET p == call'.page
         key == call'.key
     IN  (Step("RemoveAndDeleteRecord") /\ key \notin KeysOf(data[p], size[p])) =>
           /\ ret'.val = size[p]
           /\ UNCHANGED <<size, data, next_page_id>>]_vars

(* a key smaller than the first key of a page of three has just been       *)
(* removed in vain from a page that has a successor                        *)
AbsentRemoveNoOpWitness ==
  /\ call.op = "RemoveAndDeleteRecord"
  /\ call.size0 = 3
  /\ size[call.page] = 3
  /\ ret.val = 3
  /\ call.key \notin KeysOf(data[call.page], size[call.page])
  /\ KeyIndex(data[call.page], size[call.page], call.key) = 0
  /\ next_page_id[call.page] # INVALID_PAGE_ID

(* floor(n / 2), by its definition: the h with 2h <= n < 2(h + 1) *)
Half(n) == CHOOSE h \in 0..n : 2 * h <= n /\ n < 2 * (h + 1)

(***************************************************************************)
(* C13 MoveHalfTo on a page of n pairs moves exactly floor(n/2) pairs, the *)
(* tail pairs at [n - floor(n/2), n), in their order to the end of the     *)
(* recipient, whose own pairs stay, and leaves this page the first         *)
(* n - floor(n/2) pairs: the lower half with the middle pair when n is     *)
(* odd, and the whole page when n = 1.                                     *)
(***************************************************************************)
MoveHalfMovesTail ==
  [][LET p == call'.page
         r == call'.rcp
         n == size[p]
         h == Half(n)
     IN  Step("MoveHalfTo") =>
           /\ size'[p] = n - h
           /\ size'[r] = size[r] + h
           /\ LivePairs(data'[p], size'[p]) = SubSeq(LivePairs(data[p], n), 1, n - h)
           /\ LivePairs(data'[r], size'[r]) =
                LivePairs(data[r], size[r]) \o SubSeq(LivePairs(data[p], n), n - h + 1, n)
           /\ (n = 1 => UNCHANGED <<size, data>>)]_vars

(* a page of three has just been split: it keeps two pairs, the middle one *)
(* included, and the recipient holds the one pair that was last            *)
MoveHalfMovesTailWitness ==
  /\ call.op = "MoveHalfTo"
  /\ call.size0 = 3
  /\ size[call.page] = 2
  /\ size[call.rcp] = 1
  /\ CompareKeys(data[call.page][1].key, data[call.rcp][0].key) < 0

(***************************************************************************)
(* C14 Insert(key, value) on a page with pair sequence P and               *)
(* idx = KeyIndex(key) yields exactly P[0..idx) ++ [(key, value)] ++       *)
(* P[idx..size): the pairs before idx stay, the pairs from idx on move one *)
(* slot right in their order, and the new pair is in slot idx.             *)
(***************************************************************************)
InsertSplices ==
  [][LET p == call'.page
         key == call'.key
         P == LivePairs(data[p], size[p])
         idx == KeyIndex(data[p], size[p], key)
     IN  Step("Insert") =>
           \E value \in Vals :
             /\ Insert(p, key, value)
             /\ LivePairs(data'[p], size'[p]) =
                  SubSeq(P, 1, idx) \o <<[key |-> key, value |-> value]>>
                                   \o SubSeq(P, idx + 1, size[p])]_vars

(* a pair has just been inserted between the two pairs of a page of two *)
InsertSplicesWitness ==
  /\ call.op = "Insert"
  /\ call.size0 = 2
  /\ size[call.page] = 3
  /\ data[call.page][1].key = call.key
  /\ CompareKeys(data[call.page][0].key, call.key) < 0
  /\ CompareKeys(call.key, data[call.page][2].key) < 0
  /\ data[call.page][0].value # data[call.page][2].value

(* the slot of the first pair of arr[0..n) whose key is key *)
LeftmostOf(arr, n, key) ==
  CHOOSE i \in 0..(n - 1) :
    /\ CompareKeys(arr[i].key, key) = 0
    /\ \A j \in 0..(i - 1) : CompareKeys(arr[j].key, key) # 0

(***************************************************************************)
(* C15 Insert of a key that is already stored overwrites nothing: every    *)
(* old pair stays, the new pair stands immediately before the first pair   *)
(* of that key and size grows by 1; Lookup of the key then returns the new *)
(* value; and RemoveAndDeleteRecord of a stored key removes only the       *)
(* leftmost pair of that key, the one inserted last.                       *)
(***************************************************************************)
DuplicateInsertedBefore ==
  [][LET p == call'.page
         key == call'.key
         n == size[p]
         P == LivePairs(data[p], n)
         f == LeftmostOf(data[p], n, key)
     IN  /\ (Step("Insert") /\ key \in KeysOf(data[p], n)) =>
              \E value \in Vals :
                /\ Insert(p, key, value)
                /\ size'[p] = n + 1
                /\ LivePairs(data'[p], size'[p]) =
                     SubSeq(P, 1, f) \o <<[key |-> key, value |-> value]>>
                                    \o SubSeq(P, f + 1, n)
                /\ Lookup(data'[p], size'[p], key) = Found(value)
         /\ (Step("Lookup") /\ key \in KeysOf(data[p], n)) =>
              ret' = Found(data[p][f].value)
         /\ (Step("RemoveAndDeleteRecord") /\ key \in KeysOf(data[p], n)) =>
              /\ size'[p] = n - 1
              /\ LivePairs(data'[p], size'[p]) =
                   SubSeq(P, 1, f) \o SubSeq(P, f + 2, n)]_vars

(* a second pair of a stored key, with another value, has just been        *)
(* inserted before the first one, behind a pair of a smaller key           *)
DuplicateInsertedBeforeWitness ==
  /\ call.op = "Insert"
  /\ call.size0 = 2
  /\ size[call.page] = 3
  /\ CompareKeys(data[call.page][0].key, call.key) < 0
  /\ data[call.page][1].key = call.key
  /\ data[call.page][2].key = call.key
  /\ data[call.page][1].value # data[call.page][2].value
  /\ Lookup(data[call.page], size[call.page], call.key) = Found(data[call.page][1].value)

(* how many of the n pairs of arr are the pair pr *)
CountIn(arr, n, pr) == Cardinality({i \in 0..(n - 1) : arr[i] = pr})

(* the number of pairs a move call takes out of a page of n pairs *)
Moved(o, n) ==
  CASE o = "MoveHalfTo" -> Half(n)
    [] o = "MoveAllTo" -> n
    [] OTHER -> 1

MoveOps == {"MoveHalfTo", "MoveAllTo", "MoveFirstToEndOf", "MoveLastToFrontOf"}

(***************************************************************************)
(* C16 Pair conservation: a MoveHalfTo, MoveAllTo, MoveFirstToEndOf or     *)
(* MoveLastToFrontOf step between two distinct pages, from a non-empty     *)
(* page into a recipient with room for what is moved, leaves the multiset  *)
(* of (key, value) pairs of the two pages together as it was: every pair   *)
(* occurs in the two pages as many times after the step as before it.      *)
(***************************************************************************)
PairsConserved ==
  [][LET p == call'.page
         r == call'.rcp
     IN  (/\ call'.op \in MoveOps
          /\ p # r
          /\ size[p] > 0
          /\ size[r] + Moved(call'.op, size[p]) <= max_size[r]) =>
           /\ size'[p] + size'[r] = size[p] + size[r]
           /\ \A pr \in Pair :
                CountIn(data'[p], size'[p], pr) + CountIn(data'[r], size'[r], pr)
                  = CountIn(data[p], size[p], pr) + CountIn(data[r], size[r], pr)]_vars

(* the first of three pairs has just been moved behind the one pair of the *)
(* left sibling                                                            *)
PairsConservedWitness ==
  /\ call.op = "MoveFirstToEndOf"
  /\ call.size0 = 3
  /\ call.rsize0 = 1
  /\ size[call.page] = 2
  /\ size[call.rcp] = 2
  /\ CompareKeys(data[call.rcp][1].key, data[call.page][0].key) < 0

LinkKeepingOps ==
  {"Lookup", "KeyIndex", "Insert", "RemoveAndDeleteRecord",
   "MoveHalfTo", "MoveFirstToEndOf", "MoveLastToFrontOf"}

(***************************************************************************)
(* C17 Frame of the operations: a Lookup, KeyIndex, Insert,                *)
(* RemoveAndDeleteRecord, MoveHalfTo, MoveFirstToEndOf or                  *)
(* MoveLastToFrontOf step changes the next_page_id of no page; a MoveAllTo *)
(* step changes at most the recipient's next_page_id, the source page's    *)
(* stays; and no step other than Init changes page_id, parent_page_id,     *)
(* key_size or max_size of any page.                                       *)
(***************************************************************************)
MoveFrame ==
  [][/\ call'.op \in LinkKeepingOps => UNCHANGED next_page_id
     /\ Step("MoveAllTo") =>
          \A q \in PageIds \ {call'.rcp} : next_page_id'[q] = next_page_id[q]
     /\ ~Step("Init") => UNCHANGED header]_vars

(* a page with a successor has just been merged into its left sibling: it  *)
(* still names its successor, and so does the recipient now                *)
MoveFrameWitness ==
  /\ call.op = "MoveAllTo"
  /\ call.size0 > 0
  /\ call.rsize0 > 0
  /\ next_page_id[call.page] \in OtherPageIds
  /\ next_page_id[call.rcp] = next_page_id[call.page]
  /\ page_id[call.page] = call.page

(* the call that has returned is o from page a to recipient b, and the     *)
(* call of this step is o2 from b back to a                                *)
ThenBack(o, o2) ==
  /\ call.op = o
  /\ call'.op = o2
  /\ call'.page = call.rcp
  /\ call'.rcp = call.page

(***************************************************************************)
(* C18 Split/merge round trip: A.MoveHalfTo(B) with B empty, followed at   *)
(* once by B.MoveAllTo(A), leaves A with exactly the pair sequence and the *)
(* size it had before the MoveHalfTo and B with size 0; and                *)
(* A.MoveFirstToEndOf(L) followed at once by L.MoveLastToFrontOf(A) leaves *)
(* both A and L with the pair sequences they had before.                   *)
(***************************************************************************)
RoundTrip ==
  [][LET A == call.page
         B == call.rcp
     IN  /\ (ThenBack("MoveHalfTo", "MoveAllTo") /\ call.rsize0 = 0) =>
              /\ size'[A] = entry.size[A]
              /\ LivePairs(data'[A], size'[A]) =
                   LivePairs(entry.data[A], entry.size[A])
              /\ size'[B] = 0
         /\ ThenBack("MoveFirstToEndOf", "MoveLastToFrontOf") =>
              \A q \in {A, B} :
                /\ size'[q] = entry.size[q]
                /\ LivePairs(data'[q], size'[q]) =
                     LivePairs(entry.data[q], entry.size[q])]_vars

(* the first pair of a page of three, moved behind the one pair of the     *)
(* left sibling, has just been moved back                                  *)
RoundTripWitness ==
  /\ call.op = "MoveLastToFrontOf"
  /\ entry.call.op = "MoveFirstToEndOf"
  /\ entry.call.page = call.rcp
  /\ entry.call.rcp = call.page
  /\ entry.call.size0 = 3
  /\ entry.call.rsize0 = 1
  /\ size[call.rcp] = 3
  /\ size[call.page] = 1
  /\ entry.data[call.page][1] = data[call.rcp][0]

(***************************************************************************)
(* C12 Every call of KeyIndex, Lookup, Insert, RemoveAndDeleteRecord,      *)
(* MoveHalfTo, MoveAllTo, MoveFirstToEndOf or MoveLastToFrontOf started on *)
(* a page with 0 <= size <= max_size completes: its binary search and its  *)
(* shift loop end and the call returns.                                    *)
(***************************************************************************)
CallCompletes == (frame.at # "idle") ~> (frame.at = "idle")

(* the binary search of a call has found the index KeyIndex returns *)
SearchAgrees ==
  (call.op \in SearchOps /\ frame.at \in {"shift_right", "shift_left", "return"}) =>
    frame.index = KeyIndex(data[call.page], size[call.page], call.key)

(* RemoveAndDeleteRecord of the first key of a page of three has run its   *)
(* binary search and its shift loop to the end and is about to return      *)
CallCompletesWitness ==
  /\ call.op = "RemoveAndDeleteRecord"
  /\ frame.at = "return"
  /\ size[call.page] = 3
  /\ frame.index = 0
  /\ frame.i = 2
  /\ data[call.page][0].key = call.key
====
